---------------------------- MODULE Spec2Model ----------------------------
(***************************************************************************)
(* Block codec of rocksdb-rs: the varint codec and the checksum mask of     *)
(* src/util/mod.rs, the BlockBuilder of                                     *)
(* src/table/block_based/block_builder.rs, the block reader that decodes    *)
(* what the builder writes, and the ColumnFamily of                         *)
(* src/version/column_family.rs.                                            *)
(*                                                                         *)
(* Bytes are the integers 0..255.  A u32 is a little-endian sequence of two *)
(* 16-bit limbs and a u64 one of four, so that every shift, mask and cast   *)
(* keeps the width the Rust code gives it.                                   *)
(***************************************************************************)
EXTENDS Integers, Sequences, FiniteSets, TLC

VARIABLES
    builder,    \* the BlockBuilder: its fields, under the names of the struct
    history,    \* the add() and finish() calls since new() or the last clear()
    cleared,    \* "never", or whether clear() found the builder "unused" or "used"
    comparator, \* the comparator the keys are ordered by and the iterator is given
    block,      \* the Block read: the bytes of finish() and what the footer tells
    iter,       \* the iterator over block
    rpc,        \* reader: "building", "open", "first", "seek", "moved"
    scan,       \* the (key, value) pairs handed out since seek_to_first()
    seek_key,   \* the argument of the last seek()
    vpc,        \* varint harness: "idle", "input", "encoded", "raw", "decoded", "rawdecoded",
                \* and "input64", "encoded64", "decoded64", "rawdecoded64"
    vn,         \* the u32 handed to encode_var_uint32, or the u64 to encode_var_uint64
    vbuf,       \* the byte buffer handed to get_var_uint32
    voff,       \* the caller's offset before the decode
    vlen,       \* the value encode_var_uint32 returned
    vres,       \* what get_var_uint32 or get_var_uint64 returned
    crc,        \* checksum harness: the value masked, crc_mask of it, crc_unmask of that
    cf,         \* the ColumnFamily: its fields, under the names of the struct
    cfop        \* the last call made on the column family, with its arguments

bvars == <<builder, history, cleared>>
vvars == <<vpc, vn, vbuf, voff, vlen, vres>>
rvars == <<comparator, block, iter, rpc, scan, seek_key>>
cvars == <<crc>>
fvars == <<cf, cfop>>
vars == <<builder, history, cleared, comparator, block, iter, rpc, scan, seek_key,
          vpc, vn, vbuf, voff, vlen, vres, crc, cf, cfop>>

-----------------------------------------------------------------------------
(* Fixed-width unsigned integers as little-endian sequences of 16-bit limbs *)

LimbBits == 16
LimbBase == 65536

RECURSIVE Pow2(_)
Pow2(k) == IF k = 0 THEN 1 ELSE 2 * Pow2(k - 1)

Min(a, b) == IF a < b THEN a ELSE b

\* `n as u32` for a usize n
U32Of(n) == <<n % LimbBase, (n \div LimbBase) % LimbBase>>

\* `n as usize` / `n as u64` for a u32 n (zero extension)
U64OfU32(x) == <<x[1], x[2], 0, 0>>

\* a u32 read back as a length; only used on values below 2^31
NatOf(x) == x[1] + LimbBase * x[2]

Limb(x, i) == IF i >= 1 /\ i <= Len(x) THEN x[i] ELSE 0

\* x >> s, at the width of x
ShiftRight(x, s) ==
    LET q == s \div LimbBits
        r == s % LimbBits
    IN  [i \in 1..Len(x) |->
            (Limb(x, i + q) \div Pow2(r))
            + (Limb(x, i + q + 1) % Pow2(r)) * Pow2(LimbBits - r)]

\* x << s, at the width of x (the bits shifted out are lost)
ShiftLeft(x, s) ==
    LET q == s \div LimbBits
        r == s % LimbBits
    IN  [i \in 1..Len(x) |->
            ((Limb(x, i - q) * Pow2(r)) % LimbBase)
            + (Limb(x, i - q - 1) \div Pow2(LimbBits - r))]

RECURSIVE BitOr(_, _)
BitOr(a, b) ==
    IF a = 0 THEN b
    ELSE IF b = 0 THEN a
    ELSE (IF a % 2 = 1 \/ b % 2 = 1 THEN 1 ELSE 0) + 2 * BitOr(a \div 2, b \div 2)

\* x | y on two integers of the same width
Or(x, y) == [i \in 1..Len(x) |-> BitOr(x[i], y[i])]

IsZero(x) == \A i \in 1..Len(x) : x[i] = 0

\* x < (1 << k)
LtPow2(x, k) == IsZero(ShiftRight(x, k))

\* `x as u8`
AsU8(x) == x[1] % 256

-----------------------------------------------------------------------------
(* src/util/mod.rs: the varint codec                                        *)

\* const B: u32 = 128, the continuation bit
B == 128
\* const MASK: u32 = 255 of encode_var_uint32
MASK == 255
\* const MASK: u32 = 127 of get_var_uint32
MASK7 == 127

\* ((n >> s | B) & MASK) as u8
ContinuationByte(n, s) == BitOr(AsU8(ShiftRight(n, s)), B) % (MASK + 1)

RECURSIVE varint_length(_)
varint_length(v) ==
    IF ~LtPow2(v, 7) THEN 1 + varint_length(ShiftRight(v, 7)) ELSE 1

\* encode_var_uint32 with the one-byte case taken for every n below 256
encode_var_uint32_WideFirstByte(n) ==
    IF LtPow2(n, 8) THEN
        <<AsU8(n)>>
    ELSE IF LtPow2(n, 14) THEN
        <<ContinuationByte(n, 0), AsU8(ShiftRight(n, 7))>>
    ELSE IF LtPow2(n, 21) THEN
        <<ContinuationByte(n, 0), ContinuationByte(n, 7), AsU8(ShiftRight(n, 14))>>
    ELSE IF LtPow2(n, 28) THEN
        <<ContinuationByte(n, 0), ContinuationByte(n, 7), ContinuationByte(n, 14),
          AsU8(ShiftRight(n, 21))>>
    ELSE
        <<ContinuationByte(n, 0), ContinuationByte(n, 7), ContinuationByte(n, 14),
          ContinuationByte(n, 21), AsU8(ShiftRight(n, 28))>>

\* The bytes data[0..ret] that encode_var_uint32 writes; ret is their number.
encode_var_uint32(n) ==
    IF LtPow2(n, 7) THEN
        <<AsU8(n)>>
    ELSE IF LtPow2(n, 14) THEN
        <<ContinuationByte(n, 0), AsU8(ShiftRight(n, 7))>>
    ELSE IF LtPow2(n, 21) THEN
        <<ContinuationByte(n, 0), ContinuationByte(n, 7), AsU8(ShiftRight(n, 14))>>
    ELSE IF LtPow2(n, 28) THEN
        <<ContinuationByte(n, 0), ContinuationByte(n, 7), ContinuationByte(n, 14),
          AsU8(ShiftRight(n, 21))>>
    ELSE
        <<ContinuationByte(n, 0), ContinuationByte(n, 7), ContinuationByte(n, 14),
          ContinuationByte(n, 21), AsU8(ShiftRight(n, 28))>>

\* What a call of get_var_uint32 leaves: the Option<u32> and the caller's
\* offset, or a panic (an index out of the bounds of the slice).
VarSome(v, off) == [tag |-> "Some", val |-> v, offset |-> off]
VarNone(off) == [tag |-> "None", val |-> <<0, 0>>, offset |-> off]
VarPanic(off) == [tag |-> "Panic", val |-> <<0, 0>>, offset |-> off]

\* for i in 0..5 { ... } of get_var_uint32; data[i] is data[i + 1] here
RECURSIVE get_var_uint32_loop(_, _, _, _)
get_var_uint32_loop(data, offset, i, ret) ==
    IF i >= 5 THEN VarNone(offset)
    ELSE IF i > Len(data) THEN VarNone(offset)
    ELSE IF i >= Len(data) THEN VarPanic(offset)
    ELSE IF data[i + 1] >= B THEN
        get_var_uint32_loop(data, offset, i + 1,
            Or(ret, ShiftLeft(U32Of(data[i + 1] % (MASK7 + 1)), i * 7)))
    ELSE
        VarSome(Or(ret, ShiftLeft(U32Of(data[i + 1]), i * 7)), offset + i + 1)

get_var_uint32(data, offset) ==
    IF Len(data) = 0 THEN VarNone(offset)
    ELSE IF data[1] < B THEN VarSome(U32Of(data[1]), offset + 1)
    ELSE get_var_uint32_loop(data, offset, 0, <<0, 0>>)

\* u32::from_le_bytes of the first four bytes of key
decode_fixed_uint32(key) == <<key[1] + 256 * key[2], key[3] + 256 * key[4]>>

\* u16::from_le_bytes of the first two bytes of key
decode_fixed_uint16(key) == key[1] + 256 * key[2]

\* u32::to_le_bytes and u64::to_le_bytes
RECURSIVE to_le_bytes(_)
to_le_bytes(x) ==
    IF x = <<>> THEN <<>>
    ELSE <<Head(x) % 256, Head(x) \div 256>> \o to_le_bytes(Tail(x))

\* while off < len && origin[off] == target[off] { off += 1 }
RECURSIVE difference_offset_loop(_, _, _)
difference_offset_loop(origin, target, off) ==
    IF off < Min(Len(origin), Len(target)) /\ origin[off + 1] = target[off + 1]
    THEN difference_offset_loop(origin, target, off + 1)
    ELSE off

\* difference_offset that stops comparing after the first byte
difference_offset_FirstByteOnly(origin, target) ==
    IF Min(Len(origin), Len(target)) > 0 /\ origin[1] = target[1]
    THEN Min(Len(origin), Len(target))
    ELSE 0

difference_offset(origin, target) == difference_offset_loop(origin, target, 0)

\* const B: u64 = 128 of encode_var_uint64; the loop runs while v >= B
RECURSIVE encode_var_uint64_loop(_)
encode_var_uint64_loop(v) ==
    IF ~LtPow2(v, 7)
    THEN <<BitOr(v[1] % B, B) % 256>> \o encode_var_uint64_loop(ShiftRight(v, 7))
    ELSE <<AsU8(v)>>

\* the loop of encode_var_uint64 run while v > B
RECURSIVE encode_var_uint64_loop_WhileGreater(_)
encode_var_uint64_loop_WhileGreater(v) ==
    IF ~LtPow2(v, 7) /\ v /= <<B, 0, 0, 0>>
    THEN <<BitOr(v[1] % B, B) % 256>> \o encode_var_uint64_loop_WhileGreater(ShiftRight(v, 7))
    ELSE <<AsU8(v)>>

\* encode_var_uint64 that leaves the loop one value late
encode_var_uint64_WhileGreater(v) == encode_var_uint64_loop_WhileGreater(v)

\* The bytes data[0..ret] that encode_var_uint64 writes; ret is their number.
encode_var_uint64(v) == encode_var_uint64_loop(v)

\* `x as u64` for a byte x
U64Of(x) == <<x, 0, 0, 0>>

\* while shift <= 63 && offset < data.len() { ... } of get_var_uint64, and the
\* two statements after it; data[offset] is data[offset + 1] here
RECURSIVE get_var_uint64_loop(_, _, _, _, _)
get_var_uint64_loop(data, next_offset, shift, offset, ret) ==
    IF shift <= 63 /\ offset < Len(data) THEN
        IF data[offset + 1] >= B THEN
            get_var_uint64_loop(data, next_offset, shift + 7, offset + 1,
                Or(ret, ShiftLeft(U64Of(data[offset + 1] % (MASK7 + 1)), shift)))
        ELSE
            VarSome(Or(ret, ShiftLeft(U64Of(data[offset + 1]), shift)),
                    next_offset + offset + 1)
    ELSE VarNone(next_offset + offset + 1)

get_var_uint64(data, next_offset) ==
    get_var_uint64_loop(data, next_offset, 0, 0, <<0, 0, 0, 0>>)

\* const MASK_DELTA: u32 = 0xa282ead8
MASK_DELTA == <<60120, 41602>>

\* u32::wrapping_add
wrapping_add(x, y) ==
    LET lo == x[1] + y[1]
    IN  <<lo % LimbBase, (x[2] + y[2] + lo \div LimbBase) % LimbBase>>

\* u32::wrapping_sub
wrapping_sub(x, y) ==
    LET lo == x[1] - y[1]
        borrow == IF lo < 0 THEN 1 ELSE 0
    IN  <<lo % LimbBase, (x[2] - y[2] - borrow) % LimbBase>>

\* u32::wrapping_shl, the shift amount taken modulo 32
wrapping_shl(x, s) == ShiftLeft(x, s % 32)

\* crc_mask with the two halves swapped, a rotation by 16
crc_mask_Rotate16(c) ==
    wrapping_add(Or(ShiftRight(c, 16), wrapping_shl(c, 16)), MASK_DELTA)

crc_mask(c) ==
    wrapping_add(Or(ShiftRight(c, 15), wrapping_shl(c, 17)), MASK_DELTA)

crc_unmask(masked_crc) ==
    LET rot == wrapping_sub(masked_crc, MASK_DELTA)
    IN  Or(ShiftRight(rot, 17), wrapping_shl(rot, 15))

-----------------------------------------------------------------------------
(* Collaborators of the block builder whose code is outside the sources:    *)
(* the internal-key format, the footer packing and the hash index builder,  *)
(* written from sections 3, 4.2 and 6 of the specification.                 *)

\* the trailer of an internal key: 8 bytes, (sequence << 8) | type
TrailerLen == 8
\* ValueType::TypeValue
TypeValue == 1

IndexTypes == {"DataBlockBinarySearch", "DataBlockBinaryAndHash"}

\* (seq << 8) | t as a u64
pack_sequence_and_type(seq, t) == Or(ShiftLeft(seq, 8), <<t, 0, 0, 0>>)

\* strips the trailing sequence number and type of an internal key
extract_user_key(key) == SubSeq(key, 1, Len(key) - TrailerLen)

\* the footer: index type in the top bit, restart count in the 31 bits below
pack_index_type_and_num_restarts(index_type, num_restarts) ==
    IF index_type = "DataBlockBinaryAndHash"
    THEN Or(num_restarts, <<0, 32768>>)
    ELSE num_restarts

unpack_index_type(footer) ==
    IF footer[2] >= 32768 THEN "DataBlockBinaryAndHash" ELSE "DataBlockBinarySearch"

unpack_num_restarts(footer) == footer[1] + LimbBase * (footer[2] % 32768)

\* the size ceiling of a block that keeps its hash index, scaled to the
\* blocks of this model
MAX_BLOCK_SIZE_SUPPORTED_BY_HASH_INDEX == 44

\* bucket values: no key hashed here, and keys of several restart runs did
NoEntry == 255
Collision == 254

\* the hash of a user key
RECURSIVE SliceHash(_)
SliceHash(key) ==
    IF key = <<>> THEN 7 ELSE (31 * SliceHash(Tail(key)) + Head(key)) % LimbBase

HashIndex_default == [valid |-> FALSE, pairs |-> <<>>]

\* init(util_ratio): activates the builder
HashIndex_init(h) == [h EXCEPT !.valid = TRUE]

HashIndex_add(h, user_key, restart_index) ==
    [h EXCEPT !.pairs = Append(@, <<SliceHash(user_key), restart_index>>)]

\* one bucket per 0.75 key (DEFAULT_HASH_TABLE_UTIL_RATIO), rounded, at
\* least one, made odd
HashIndex_num_buckets(h) ==
    LET n == (8 * Len(h.pairs) + 3) \div 6
        m == IF n = 0 THEN 1 ELSE n
    IN  IF m % 2 = 0 THEN m + 1 ELSE m

\* byte cost if serialized now: the buckets and their 2-byte count
HashIndex_estimate_size(h) == 2 + HashIndex_num_buckets(h)

RECURSIVE HashIndex_fill(_, _, _)
HashIndex_fill(buckets, pairs, n) ==
    IF pairs = <<>> THEN buckets
    ELSE LET idx == (Head(pairs)[1] % n) + 1
             r == Head(pairs)[2]
             b == IF buckets[idx] = NoEntry THEN r
                  ELSE IF buckets[idx] = r THEN r
                  ELSE Collision
         IN  HashIndex_fill([buckets EXCEPT ![idx] = b], Tail(pairs), n)

\* the bytes finish(buffer) appends: the bucket table, then its length
HashIndex_finish(h) ==
    LET n == HashIndex_num_buckets(h)
    IN  HashIndex_fill([i \in 1..n |-> NoEntry], h.pairs, n)
        \o <<n % 256, n \div 256>>

\* clear(): resets the buckets, keeps the activation
HashIndex_clear(h) == [h EXCEPT !.pairs = <<>>]

-----------------------------------------------------------------------------
(* src/table/block_based/block_builder.rs: BlockBuilder                     *)

\* std::mem::size_of::<u32>()
SizeOfU32 == 4

BlockBuilder_new(block_restart_interval, use_delta_encoding, index_type) ==
    [buff |-> <<>>,
     restarts |-> <<0>>,
     last_key |-> <<>>,
     count |-> 0,
     block_restart_interval |-> block_restart_interval,
     use_delta_encoding |-> use_delta_encoding,
     hash_index_builder |->
        IF index_type = "DataBlockBinaryAndHash"
        THEN HashIndex_init(HashIndex_default)
        ELSE HashIndex_default,
     estimate |-> SizeOfU32 * 2]

is_empty(b) == Len(b.buff) = 0

current_size_estimate(b) ==
    LET x == IF b.hash_index_builder.valid
             THEN HashIndex_estimate_size(b.hash_index_builder)
             ELSE 0
    IN  b.estimate + x

\* add() that appends the whole key where the suffix key[shared..] belongs
BlockBuilder_add_WritesWholeKey(b, key, value) ==
    LET restart == b.count >= b.block_restart_interval
        shared == IF restart THEN 0
                  ELSE IF b.use_delta_encoding THEN difference_offset(b.last_key, key)
                  ELSE 0
        restarts1 == IF restart
                     THEN Append(b.restarts, NatOf(U32Of(Len(b.buff))))
                     ELSE b.restarts
        estimate1 == IF restart THEN b.estimate + SizeOfU32 ELSE b.estimate
        count1 == IF restart THEN 0 ELSE b.count
        last_key1 == IF b.use_delta_encoding THEN key ELSE b.last_key
        non_shared == Len(key) - shared
        curr_size == Len(b.buff)
        tmp == encode_var_uint32(U32Of(shared))
               \o encode_var_uint32(U32Of(non_shared))
               \o encode_var_uint32(U32Of(Len(value)))
        buff1 == b.buff \o tmp \o key \o value
        hash1 == IF b.hash_index_builder.valid
                 THEN HashIndex_add(b.hash_index_builder, extract_user_key(key),
                                    Len(restarts1) - 1)
                 ELSE b.hash_index_builder
    IN  [b EXCEPT !.buff = buff1,
                  !.restarts = restarts1,
                  !.last_key = last_key1,
                  !.hash_index_builder = hash1,
                  !.estimate = estimate1 + (Len(buff1) - curr_size),
                  !.count = count1 + 1]


\* add() that writes key.len() where key.len() - shared belongs
BlockBuilder_add_NonSharedIsKeyLen(b, key, value) ==
    LET restart == b.count >= b.block_restart_interval
        shared == IF restart THEN 0
                  ELSE IF b.use_delta_encoding THEN difference_offset(b.last_key, key)
                  ELSE 0
        restarts1 == IF restart
                     THEN Append(b.restarts, NatOf(U32Of(Len(b.buff))))
                     ELSE b.restarts
        estimate1 == IF restart THEN b.estimate + SizeOfU32 ELSE b.estimate
        count1 == IF restart THEN 0 ELSE b.count
        last_key1 == IF b.use_delta_encoding THEN key ELSE b.last_key
        non_shared == Len(key)
        curr_size == Len(b.buff)
        tmp == encode_var_uint32(U32Of(shared))
               \o encode_var_uint32(U32Of(non_shared))
               \o encode_var_uint32(U32Of(Len(value)))
        buff1 == b.buff \o tmp \o SubSeq(key, shared + 1, Len(key)) \o value
        hash1 == IF b.hash_index_builder.valid
                 THEN HashIndex_add(b.hash_index_builder, extract_user_key(key),
                                    Len(restarts1) - 1)
                 ELSE b.hash_index_builder
    IN  [b EXCEPT !.buff = buff1,
                  !.restarts = restarts1,
                  !.last_key = last_key1,
                  !.hash_index_builder = hash1,
                  !.estimate = estimate1 + (Len(buff1) - curr_size),
                  !.count = count1 + 1]


\* add() that shares a prefix with the previous key at a restart point too
BlockBuilder_add_SharedAtRestart(b, key, value) ==
    LET restart == b.count >= b.block_restart_interval
        shared == IF b.use_delta_encoding THEN difference_offset(b.last_key, key)
                  ELSE 0
        restarts1 == IF restart
                     THEN Append(b.restarts, NatOf(U32Of(Len(b.buff))))
                     ELSE b.restarts
        estimate1 == IF restart THEN b.estimate + SizeOfU32 ELSE b.estimate
        count1 == IF restart THEN 0 ELSE b.count
        last_key1 == IF b.use_delta_encoding THEN key ELSE b.last_key
        non_shared == Len(key) - shared
        curr_size == Len(b.buff)
        tmp == encode_var_uint32(U32Of(shared))
               \o encode_var_uint32(U32Of(non_shared))
               \o encode_var_uint32(U32Of(Len(value)))
        buff1 == b.buff \o tmp \o SubSeq(key, shared + 1, Len(key)) \o value
        hash1 == IF b.hash_index_builder.valid
                 THEN HashIndex_add(b.hash_index_builder, extract_user_key(key),
                                    Len(restarts1) - 1)
                 ELSE b.hash_index_builder
    IN  [b EXCEPT !.buff = buff1,
                  !.restarts = restarts1,
                  !.last_key = last_key1,
                  !.hash_index_builder = hash1,
                  !.estimate = estimate1 + (Len(buff1) - curr_size),
                  !.count = count1 + 1]


\* add() that assigns the bytes appended to the estimate where it should add them
BlockBuilder_add_EstimateAssigned(b, key, value) ==
    LET restart == b.count >= b.block_restart_interval
        shared == IF restart THEN 0
                  ELSE IF b.use_delta_encoding THEN difference_offset(b.last_key, key)
                  ELSE 0
        restarts1 == IF restart
                     THEN Append(b.restarts, NatOf(U32Of(Len(b.buff))))
                     ELSE b.restarts
        estimate1 == IF restart THEN b.estimate + SizeOfU32 ELSE b.estimate
        count1 == IF restart THEN 0 ELSE b.count
        last_key1 == IF b.use_delta_encoding THEN key ELSE b.last_key
        non_shared == Len(key) - shared
        curr_size == Len(b.buff)
        tmp == encode_var_uint32(U32Of(shared))
               \o encode_var_uint32(U32Of(non_shared))
               \o encode_var_uint32(U32Of(Len(value)))
        buff1 == b.buff \o tmp \o SubSeq(key, shared + 1, Len(key)) \o value
        hash1 == IF b.hash_index_builder.valid
                 THEN HashIndex_add(b.hash_index_builder, extract_user_key(key),
                                    Len(restarts1) - 1)
                 ELSE b.hash_index_builder
    IN  [b EXCEPT !.buff = buff1,
                  !.restarts = restarts1,
                  !.last_key = last_key1,
                  !.hash_index_builder = hash1,
                  !.estimate = Len(buff1) - curr_size,
                  !.count = count1 + 1]


\* add() that does not count the restart offset it pushes in the estimate
BlockBuilder_add_NoRestartEstimate(b, key, value) ==
    LET restart == b.count >= b.block_restart_interval
        shared == IF restart THEN 0
                  ELSE IF b.use_delta_encoding THEN difference_offset(b.last_key, key)
                  ELSE 0
        restarts1 == IF restart
                     THEN Append(b.restarts, NatOf(U32Of(Len(b.buff))))
                     ELSE b.restarts
        estimate1 == b.estimate
        count1 == IF restart THEN 0 ELSE b.count
        last_key1 == IF b.use_delta_encoding THEN key ELSE b.last_key
        non_shared == Len(key) - shared
        curr_size == Len(b.buff)
        tmp == encode_var_uint32(U32Of(shared))
               \o encode_var_uint32(U32Of(non_shared))
               \o encode_var_uint32(U32Of(Len(value)))
        buff1 == b.buff \o tmp \o SubSeq(key, shared + 1, Len(key)) \o value
        hash1 == IF b.hash_index_builder.valid
                 THEN HashIndex_add(b.hash_index_builder, extract_user_key(key),
                                    Len(restarts1) - 1)
                 ELSE b.hash_index_builder
    IN  [b EXCEPT !.buff = buff1,
                  !.restarts = restarts1,
                  !.last_key = last_key1,
                  !.hash_index_builder = hash1,
                  !.estimate = estimate1 + (Len(buff1) - curr_size),
                  !.count = count1 + 1]

\* add() that starts a restart run when count > block_restart_interval
BlockBuilder_add_LateRestart(b, key, value) ==
    LET restart == b.count > b.block_restart_interval
        shared == IF restart THEN 0
                  ELSE IF b.use_delta_encoding THEN difference_offset(b.last_key, key)
                  ELSE 0
        restarts1 == IF restart
                     THEN Append(b.restarts, NatOf(U32Of(Len(b.buff))))
                     ELSE b.restarts
        estimate1 == IF restart THEN b.estimate + SizeOfU32 ELSE b.estimate
        count1 == IF restart THEN 0 ELSE b.count
        last_key1 == IF b.use_delta_encoding THEN key ELSE b.last_key
        non_shared == Len(key) - shared
        curr_size == Len(b.buff)
        tmp == encode_var_uint32(U32Of(shared))
               \o encode_var_uint32(U32Of(non_shared))
               \o encode_var_uint32(U32Of(Len(value)))
        buff1 == b.buff \o tmp \o SubSeq(key, shared + 1, Len(key)) \o value
        hash1 == IF b.hash_index_builder.valid
                 THEN HashIndex_add(b.hash_index_builder, extract_user_key(key),
                                    Len(restarts1) - 1)
                 ELSE b.hash_index_builder
    IN  [b EXCEPT !.buff = buff1,
                  !.restarts = restarts1,
                  !.last_key = last_key1,
                  !.hash_index_builder = hash1,
                  !.estimate = estimate1 + (Len(buff1) - curr_size),
                  !.count = count1 + 1]

\* add() that leaves last_key alone when it starts a restart run
BlockBuilder_add_StaleLastKey(b, key, value) ==
    LET restart == b.count >= b.block_restart_interval
        shared == IF restart THEN 0
                  ELSE IF b.use_delta_encoding THEN difference_offset(b.last_key, key)
                  ELSE 0
        restarts1 == IF restart
                     THEN Append(b.restarts, NatOf(U32Of(Len(b.buff))))
                     ELSE b.restarts
        estimate1 == IF restart THEN b.estimate + SizeOfU32 ELSE b.estimate
        count1 == IF restart THEN 0 ELSE b.count
        last_key1 == IF b.use_delta_encoding /\ ~restart THEN key ELSE b.last_key
        non_shared == Len(key) - shared
        curr_size == Len(b.buff)
        tmp == encode_var_uint32(U32Of(shared))
               \o encode_var_uint32(U32Of(non_shared))
               \o encode_var_uint32(U32Of(Len(value)))
        buff1 == b.buff \o tmp \o SubSeq(key, shared + 1, Len(key)) \o value
        hash1 == IF b.hash_index_builder.valid
                 THEN HashIndex_add(b.hash_index_builder, extract_user_key(key),
                                    Len(restarts1) - 1)
                 ELSE b.hash_index_builder
    IN  [b EXCEPT !.buff = buff1,
                  !.restarts = restarts1,
                  !.last_key = last_key1,
                  !.hash_index_builder = hash1,
                  !.estimate = estimate1 + (Len(buff1) - curr_size),
                  !.count = count1 + 1]

BlockBuilder_add(b, key, value) ==
    LET restart == b.count >= b.block_restart_interval
        shared == IF restart THEN 0
                  ELSE IF b.use_delta_encoding THEN difference_offset(b.last_key, key)
                  ELSE 0
        restarts1 == IF restart
                     THEN Append(b.restarts, NatOf(U32Of(Len(b.buff))))
                     ELSE b.restarts
        estimate1 == IF restart THEN b.estimate + SizeOfU32 ELSE b.estimate
        count1 == IF restart THEN 0 ELSE b.count
        last_key1 == IF b.use_delta_encoding THEN key ELSE b.last_key
        non_shared == Len(key) - shared
        curr_size == Len(b.buff)
        tmp == encode_var_uint32(U32Of(shared))
               \o encode_var_uint32(U32Of(non_shared))
               \o encode_var_uint32(U32Of(Len(value)))
        buff1 == b.buff \o tmp \o SubSeq(key, shared + 1, Len(key)) \o value
        hash1 == IF b.hash_index_builder.valid
                 THEN HashIndex_add(b.hash_index_builder, extract_user_key(key),
                                    Len(restarts1) - 1)
                 ELSE b.hash_index_builder
    IN  [b EXCEPT !.buff = buff1,
                  !.restarts = restarts1,
                  !.last_key = last_key1,
                  !.hash_index_builder = hash1,
                  !.estimate = estimate1 + (Len(buff1) - curr_size),
                  !.count = count1 + 1]

\* the restart offsets written last first
RECURSIVE RestartBytes_Reversed(_)
RestartBytes_Reversed(restarts) ==
    IF restarts = <<>> THEN <<>>
    ELSE RestartBytes_Reversed(Tail(restarts)) \o to_le_bytes(U32Of(Head(restarts)))

\* for i in self.restarts.iter() { buff.extend_from_slice(&i.to_le_bytes()) }
RECURSIVE RestartBytes(_)
RestartBytes(restarts) ==
    IF restarts = <<>> THEN <<>>
    ELSE to_le_bytes(U32Of(Head(restarts))) \o RestartBytes(Tail(restarts))

\* whether finish() keeps the hash index
HashIndexRetained(b) ==
    /\ b.hash_index_builder.valid
    /\ current_size_estimate(b) < MAX_BLOCK_SIZE_SUPPORTED_BY_HASH_INDEX

\* finish() that keeps the hash index whatever the size of the block
BlockBuilder_finish_IgnoresCeiling(b) ==
    LET buff1 == b.buff \o RestartBytes(b.restarts)
        index_type == IF b.hash_index_builder.valid
                      THEN "DataBlockBinaryAndHash"
                      ELSE "DataBlockBinarySearch"
        buff2 == IF b.hash_index_builder.valid
                 THEN buff1 \o HashIndex_finish(b.hash_index_builder)
                 ELSE buff1
        block_footer == pack_index_type_and_num_restarts(index_type,
                                                         U32Of(Len(b.restarts)))
    IN  [b EXCEPT !.buff = buff2 \o to_le_bytes(block_footer)]

\* finish(): the builder afterwards; the slice returned is its buff
BlockBuilder_finish(b) ==
    LET buff1 == b.buff \o RestartBytes(b.restarts)
        index_type == IF HashIndexRetained(b)
                      THEN "DataBlockBinaryAndHash"
                      ELSE "DataBlockBinarySearch"
        buff2 == IF HashIndexRetained(b)
                 THEN buff1 \o HashIndex_finish(b.hash_index_builder)
                 ELSE buff1
        block_footer == pack_index_type_and_num_restarts(index_type,
                                                         U32Of(Len(b.restarts)))
    IN  [b EXCEPT !.buff = buff2 \o to_le_bytes(block_footer)]

\* clear() that leaves last_key as it was
BlockBuilder_clear_KeepsLastKey(b) ==
    [b EXCEPT !.buff = <<>>,
              !.restarts = <<0>>,
              !.estimate = SizeOfU32 * 2,
              !.count = 0,
              !.hash_index_builder =
                  IF @.valid THEN HashIndex_clear(@) ELSE @]

\* clear() that empties restarts and does not push the first restart point
BlockBuilder_clear_NoFirstRestart(b) ==
    [b EXCEPT !.buff = <<>>,
              !.restarts = <<>>,
              !.estimate = SizeOfU32 * 2,
              !.count = 0,
              !.last_key = <<>>,
              !.hash_index_builder =
                  IF @.valid THEN HashIndex_clear(@) ELSE @]

BlockBuilder_clear(b) ==
    [b EXCEPT !.buff = <<>>,
              !.restarts = <<0>>,
              !.estimate = SizeOfU32 * 2,
              !.count = 0,
              !.last_key = <<>>,
              !.hash_index_builder =
                  IF @.valid THEN HashIndex_clear(@) ELSE @]

-----------------------------------------------------------------------------
(* The block reader and its iterator, the decode side of the builder, from  *)
(* section 4.3 of the specification.                                        *)

\* the override that leaves the sequence numbers of the keys as written
DISABLE_GLOBAL_SEQUENCE_NUMBER == <<65535, 65535, 65535, 65535>>

\* u64::from_le_bytes of the first eight bytes of key
decode_fixed_uint64(key) ==
    <<key[1] + 256 * key[2], key[3] + 256 * key[4],
      key[5] + 256 * key[6], key[7] + 256 * key[8]>>

\* -1, 0 or 1 as a is before, equal to or after b, byte by byte
RECURSIVE BytewiseCompare(_, _)
BytewiseCompare(a, b) ==
    IF a = <<>> THEN (IF b = <<>> THEN 0 ELSE -1)
    ELSE IF b = <<>> THEN 1
    ELSE IF Head(a) < Head(b) THEN -1
    ELSE IF Head(a) > Head(b) THEN 1
    ELSE BytewiseCompare(Tail(a), Tail(b))

\* two unsigned integers of the same width, from the highest limb down
RECURSIVE UintCompare(_, _)
UintCompare(x, y) ==
    IF x = <<>> THEN 0
    ELSE LET n == Len(x)
         IN  IF x[n] < y[n] THEN -1
             ELSE IF x[n] > y[n] THEN 1
             ELSE UintCompare(SubSeq(x, 1, n - 1), SubSeq(y, 1, n - 1))

Trailer(key) == SubSeq(key, Len(key) - TrailerLen + 1, Len(key))

\* user keys ascending, then sequence numbers descending
InternalKeyCompare(a, b) ==
    LET c == BytewiseCompare(extract_user_key(a), extract_user_key(b))
    IN  IF c /= 0 THEN c
        ELSE UintCompare(decode_fixed_uint64(Trailer(b)), decode_fixed_uint64(Trailer(a)))

Compare(cmp, a, b) ==
    IF cmp = "InternalKeyComparator" THEN InternalKeyCompare(a, b)
    ELSE BytewiseCompare(a, b)

\* Block::new(data, global_seqno): the footer tells the index type and the
\* restart count, and with them where the restart array begins
Block_new(data, global_seqno) ==
    LET n == Len(data)
        footer == decode_fixed_uint32(SubSeq(data, n - 3, n))
        index_type == unpack_index_type(footer)
        num_restarts == unpack_num_restarts(footer)
        hash_len == IF index_type = "DataBlockBinaryAndHash"
                    THEN 2 + decode_fixed_uint16(SubSeq(data, n - 5, n - 4))
                    ELSE 0
    IN  [data |-> data,
         global_seqno |-> global_seqno,
         index_type |-> index_type,
         num_restarts |-> num_restarts,
         restart_offset |-> n - SizeOfU32 - hash_len - SizeOfU32 * num_restarts]

\* the i-th restart offset, i from 0
get_restart_point(blk, i) ==
    NatOf(decode_fixed_uint32(
        SubSeq(blk.data, blk.restart_offset + SizeOfU32 * i + 1,
               blk.restart_offset + SizeOfU32 * i + SizeOfU32)))

\* the entry that starts at offset p of data and ends before limit, its key
\* rebuilt on the key of the entry before it; ok is FALSE when the bytes at p
\* are no entry (a varint that does not decode, a length past limit or past
\* the previous key)
ParseEntry(data, limit, p, prev_key) ==
    LET r1 == get_var_uint32(SubSeq(data, p + 1, limit), p)
        r2 == get_var_uint32(SubSeq(data, r1.offset + 1, limit), r1.offset)
        r3 == get_var_uint32(SubSeq(data, r2.offset + 1, limit), r2.offset)
        shared == NatOf(r1.val)
        non_shared == NatOf(r2.val)
        value_len == NatOf(r3.val)
        ok == /\ r1.tag = "Some" /\ r1.val[2] < 32768
              /\ r2.tag = "Some" /\ r2.val[2] < 32768
              /\ r3.tag = "Some" /\ r3.val[2] < 32768
              /\ shared <= Len(prev_key)
              /\ r3.offset + non_shared + value_len <= limit
    IN  IF ok
        THEN [ok |-> TRUE,
              shared |-> shared,
              non_shared |-> non_shared,
              delta |-> SubSeq(data, r3.offset + 1, r3.offset + non_shared),
              key |-> SubSeq(prev_key, 1, shared)
                      \o SubSeq(data, r3.offset + 1, r3.offset + non_shared),
              value |-> SubSeq(data, r3.offset + non_shared + 1,
                               r3.offset + non_shared + value_len),
              next |-> r3.offset + non_shared + value_len]
        ELSE [ok |-> FALSE, shared |-> 0, non_shared |-> 0, delta |-> <<>>,
              key |-> <<>>, value |-> <<>>, next |-> limit]

\* the iterator: the raw key and the value of its entry, the offset of the
\* entry and of the one after it; corrupt when the bytes there are no entry
IterAt(blk, p, prev_key) ==
    IF p >= blk.restart_offset
    THEN [valid |-> FALSE, corrupt |-> FALSE, key |-> <<>>, value |-> <<>>,
          current |-> blk.restart_offset, next |-> blk.restart_offset]
    ELSE LET e == ParseEntry(blk.data, blk.restart_offset, p, prev_key)
         IN  IF e.ok
             THEN [valid |-> TRUE, corrupt |-> FALSE, key |-> e.key, value |-> e.value,
                   current |-> p, next |-> e.next]
             ELSE [valid |-> FALSE, corrupt |-> TRUE, key |-> <<>>, value |-> <<>>,
                   current |-> p, next |-> blk.restart_offset]

\* the key the iterator hands out: with an override, the sequence number of
\* the trailer is replaced and the type kept
ApplyGlobalSeqno(global_seqno, key) ==
    IF global_seqno = DISABLE_GLOBAL_SEQUENCE_NUMBER \/ Len(key) < TrailerLen
    THEN key
    ELSE extract_user_key(key)
         \o to_le_bytes(pack_sequence_and_type(global_seqno, Trailer(key)[1]))

Iter_key(blk, it) == ApplyGlobalSeqno(blk.global_seqno, it.key)

Iter_seek_to_first(blk) == IterAt(blk, get_restart_point(blk, 0), <<>>)

Iter_next(blk, it) == IterAt(blk, it.next, it.key)

\* the last restart point in left..right whose key is not after target
RECURSIVE BinarySeek(_, _, _, _, _)
BinarySeek(blk, cmp, target, left, right) ==
    IF left >= right THEN left
    ELSE LET mid == (left + right + 1) \div 2
             it == IterAt(blk, get_restart_point(blk, mid), <<>>)
         IN  IF it.valid /\ Compare(cmp, Iter_key(blk, it), target) <= 0
             THEN BinarySeek(blk, cmp, target, mid, right)
             ELSE BinarySeek(blk, cmp, target, left, mid - 1)

\* forward from it to the first entry whose key is not before target
RECURSIVE ScanForward(_, _, _, _)
ScanForward(blk, cmp, target, it) ==
    IF it.valid /\ Compare(cmp, Iter_key(blk, it), target) < 0
    THEN ScanForward(blk, cmp, target, Iter_next(blk, it))
    ELSE it

\* the bucket of user_key in the hash index of the block: the bucket table
\* ends at the 2-byte bucket count that precedes the footer, and the bucket
\* holds a restart index, NoEntry or Collision
DataBlockHashIndex_lookup(blk, user_key) ==
    LET n == Len(blk.data)
        num_buckets == decode_fixed_uint16(SubSeq(blk.data, n - 5, n - 4))
        map_offset == n - SizeOfU32 - 2 - num_buckets
    IN  blk.data[map_offset + (SliceHash(user_key) % num_buckets) + 1]

\* seek(target): with a hash index, the bucket of the target's user key names
\* the restart point to scan from; a bucket that names none (NoEntry) or
\* several (Collision), and a block without hash index, take the binary
\* search over the restart points. The scan forward stops at the first entry
\* whose key is not before target.
Iter_seek(blk, cmp, target) ==
    LET entry == IF blk.index_type = "DataBlockBinaryAndHash"
                 THEN DataBlockHashIndex_lookup(blk, extract_user_key(target))
                 ELSE NoEntry
        left == IF entry = NoEntry \/ entry = Collision
                THEN BinarySeek(blk, cmp, target, 0, blk.num_restarts - 1)
                ELSE entry
    IN  ScanForward(blk, cmp, target,
                    IterAt(blk, get_restart_point(blk, left), <<>>))

-----------------------------------------------------------------------------
(* src/version/column_family.rs: ColumnFamily.  A Memtable is what the      *)
(* column family reads of it, its identity and its next log number; a       *)
(* Version its identity and its log number.  Memtable, Version and          *)
(* SuperVersion are outside the sources: their getters return the field     *)
(* they are named after and SuperVersion::new stores its arguments in the   *)
(* fields that the struct literal of ColumnFamily::new names.               *)

Memtable_get_next_log_number(m) == m.next_log_number
Version_get_log_number(v) == v.log_number

\* SuperVersion::new(id, mem, imms, current, column_family_options, cache,
\* version_number); the options and the cache are the column family's own
\* and never change
SuperVersion_new(id, mem, imms, current, version_number) ==
    [id |-> id, mem |-> mem, imms |-> imms, current |-> current,
     version_number |-> version_number]

ColumnFamily_new(id, m, version) ==
    [log_number |-> Version_get_log_number(version),
     mem |-> m,
     imms |-> <<>>,
     super_version |-> [id |-> id, mem |-> m, imms |-> <<>>, current |-> version,
                        version_number |-> 0],
     super_version_number |-> 0,
     version |-> version,
     id |-> id]

ColumnFamily_set_log_number(c, log_number) == [c EXCEPT !.log_number = log_number]

\* the imms that remove() keeps, in the order of the for loop
RECURSIVE ColumnFamily_remove_loop(_, _)
ColumnFamily_remove_loop(imms, next_log_number) ==
    IF imms = <<>> THEN <<>>
    ELSE (IF next_log_number > 0
             /\ Memtable_get_next_log_number(Head(imms)) > next_log_number
          THEN <<Head(imms)>> ELSE <<>>)
         \o ColumnFamily_remove_loop(Tail(imms), next_log_number)

ColumnFamily_remove(c, next_log_number) ==
    [c EXCEPT !.imms = ColumnFamily_remove_loop(c.imms, next_log_number)]

\* install_version that hands the old counter value to the super version
ColumnFamily_install_version_StaleNumber(c, next_log_number, new_version) ==
    LET removed == ColumnFamily_remove(c, next_log_number)
    IN  [removed EXCEPT
            !.super_version_number = c.super_version_number + 1,
            !.super_version = SuperVersion_new(c.id, removed.mem, removed.imms,
                                               new_version, c.super_version_number),
            !.version = new_version,
            !.log_number = IF Version_get_log_number(new_version) > 0
                           THEN Version_get_log_number(new_version)
                           ELSE c.log_number]

ColumnFamily_install_version(c, next_log_number, new_version) ==
    LET removed == ColumnFamily_remove(c, next_log_number)
        super_version_number == c.super_version_number + 1
    IN  [removed EXCEPT
            !.super_version_number = super_version_number,
            !.super_version = SuperVersion_new(c.id, removed.mem, removed.imms,
                                               new_version, super_version_number),
            !.version = new_version,
            !.log_number = IF Version_get_log_number(new_version) > 0
                           THEN Version_get_log_number(new_version)
                           ELSE c.log_number]

\* switch_memtable that builds the super version before the push
ColumnFamily_switch_memtable_PushAfter(c, mem) ==
    LET super_version_number == c.super_version_number + 1
    IN  [c EXCEPT
            !.imms = Append(c.imms, c.mem),
            !.super_version_number = super_version_number,
            !.super_version = SuperVersion_new(c.id, mem, c.imms, c.version,
                                               super_version_number),
            !.mem = mem]

ColumnFamily_switch_memtable(c, mem) ==
    LET imms == Append(c.imms, c.mem)
        super_version_number == c.super_version_number + 1
    IN  [c EXCEPT
            !.imms = imms,
            !.super_version_number = super_version_number,
            !.super_version = SuperVersion_new(c.id, mem, imms, c.version,
                                               super_version_number),
            !.mem = mem]

-----------------------------------------------------------------------------
(* The builder under any sequence of calls                                  *)

\* largest block_restart_interval a builder is constructed with
MaxInterval == 2
\* most add() and finish() calls between new() or clear() and the next clear()
MaxOps == 4

U64OfNat(n) == <<n % LimbBase, (n \div LimbBase) % LimbBase, 0, 0>>

\* a user key followed by its packed sequence number and type
InternalKey(user_key, seq) ==
    user_key \o to_le_bytes(pack_sequence_and_type(U64OfNat(seq), TypeValue))

PlainKeySamples == {<<>>, <<97>>, <<97, 98>>}
InternalKeySamples ==
    {InternalKey(<<97>>, 1), InternalKey(<<97>>, 0), InternalKey(<<97, 98>>, 0)}
ValueSamples == {<<>>, <<118>>}

\* extract_user_key needs an internal key when the hash index is active
KeysFor(b) == IF b.hash_index_builder.valid THEN InternalKeySamples ELSE PlainKeySamples

\* the entries given to add(): every key with a one-byte value, and one key of
\* each kind with the empty value as well
EmptyValueKeys == {<<97>>, InternalKey(<<97>>, 0)}
EntrySamples(b) ==
    {e \in KeysFor(b) \X ValueSamples : e[2] /= <<>> \/ e[1] \in EmptyValueKeys}

FreshBuilders ==
    {BlockBuilder_new(n, d, t) : n \in 1..MaxInterval, d \in BOOLEAN, t \in IndexTypes}

VIdle ==
    /\ vpc = "idle"
    /\ vn = <<0, 0>>
    /\ voff = 0
    /\ vbuf = <<>>
    /\ vlen = 0
    /\ vres = [tag |-> "NoResult", val |-> <<0, 0>>, offset |-> 0]

NoBlock ==
    [data |-> <<>>, global_seqno |-> DISABLE_GLOBAL_SEQUENCE_NUMBER,
     index_type |-> "DataBlockBinarySearch", num_restarts |-> 0, restart_offset |-> 0]
NoIter ==
    [valid |-> FALSE, corrupt |-> FALSE, key |-> <<>>, value |-> <<>>,
     current |-> 0, next |-> 0]

RIdle ==
    /\ block = NoBlock
    /\ iter = NoIter
    /\ rpc = "building"
    /\ scan = <<>>
    /\ seek_key = <<>>

NoChecksum == [pc |-> "idle", crc |-> <<0, 0>>, masked |-> <<0, 0>>, unmasked |-> <<0, 0>>]
CIdle == crc = NoChecksum

NoCall == [op |-> "new", next_log_number |-> 0, log_number |-> 0,
           version |-> [id |-> 0, log_number |-> 0],
           mem |-> [id |-> 0, next_log_number |-> 0]]
FIdle ==
    /\ cf = ColumnFamily_new(0, [id |-> 0, next_log_number |-> 0],
                              [id |-> 0, log_number |-> 0])
    /\ cfop = NoCall

Init ==
    /\ builder \in FreshBuilders
    /\ history = <<>>
    /\ cleared = "never"
    /\ comparator = "DefaultUserComparator"
    /\ RIdle
    /\ VIdle
    /\ CIdle
    /\ FIdle

AddOp(key, value, offset) == [op |-> "add", key |-> key, value |-> value, offset |-> offset]
FinishOp(offset) == [op |-> "finish", key |-> <<>>, value |-> <<>>, offset |-> offset]

\* builder.add(key, value)
Add(key, value) ==
    /\ Len(history) < MaxOps
    /\ builder' = BlockBuilder_add(builder, key, value)
    /\ history' = Append(history, AddOp(key, value, Len(builder.buff)))
    /\ UNCHANGED <<cleared, rvars, vvars, cvars, fvars>>

\* builder.finish()
Finish ==
    /\ Len(history) < MaxOps
    /\ builder' = BlockBuilder_finish(builder)
    /\ history' = Append(history, FinishOp(Len(builder.buff)))
    /\ UNCHANGED <<cleared, rvars, vvars, cvars, fvars>>

\* builder.clear()
Clear ==
    /\ builder' = BlockBuilder_clear(builder)
    /\ history' = <<>>
    /\ cleared' = IF history /= <<>> \/ cleared = "used" THEN "used" ELSE "unused"
    /\ UNCHANGED <<rvars, vvars, cvars, fvars>>

Next ==
    \/ \E e \in EntrySamples(builder) : Add(e[1], e[2])
    \/ Finish
    \/ Clear

Spec == Init /\ [][Next]_vars

-----------------------------------------------------------------------------
(* A block built as the builder's contract asks (keys ascending, one        *)
(* finish()) and then read                                                  *)

\* TypeDeletion
TypeDeletion == 0

InternalKeyOfType(user_key, seq, t) ==
    user_key \o to_le_bytes(pack_sequence_and_type(U64OfNat(seq), t))

BlockPlainKeys == {<<>>, <<97>>, <<97, 98>>, <<98>>}
BlockInternalKeys ==
    {InternalKey(<<97>>, 1), InternalKey(<<97>>, 0),
     InternalKeyOfType(<<97, 98>>, 2, TypeDeletion), InternalKey(<<97, 98>>, 0),
     InternalKey(<<98>>, 1)}

BlockKeys(cmp) ==
    IF cmp = "InternalKeyComparator" THEN BlockInternalKeys ELSE BlockPlainKeys

\* the entries given to add(): every key with a one-byte value, and one key of
\* each kind with the empty value as well
BlockEntries(cmp) ==
    {e \in BlockKeys(cmp) \X ValueSamples : e[2] /= <<>> \/ e[1] \in EmptyValueKeys}

\* seek targets: the keys stored, and keys between, before and after them
SeekTargets(cmp) ==
    IF cmp = "InternalKeyComparator"
    THEN BlockInternalKeys
         \cup {InternalKey(<<>>, 0), InternalKey(<<97, 97>>, 1), InternalKey(<<98>>, 0),
               InternalKey(<<97, 98>>, 12)}
    ELSE BlockPlainKeys \cup {<<97, 97>>, <<99>>}

\* the overrides a reader is constructed with
GlobalSeqnoSamples(cmp) ==
    IF cmp = "InternalKeyComparator"
    THEN {DISABLE_GLOBAL_SEQUENCE_NUMBER, U64OfNat(12)}
    ELSE {DISABLE_GLOBAL_SEQUENCE_NUMBER}

Last(seq) == seq[Len(seq)]

Finished == history /= <<>> /\ Last(history).op = "finish"

BlockInit ==
    /\ comparator \in {"DefaultUserComparator", "InternalKeyComparator"}
    /\ builder \in {b \in FreshBuilders :
                        b.hash_index_builder.valid => comparator = "InternalKeyComparator"}
    /\ history = <<>>
    /\ cleared = "never"
    /\ RIdle
    /\ VIdle
    /\ CIdle
    /\ FIdle

\* builder.add(key, value), key after the key added before it
AddAscending(key, value) ==
    /\ rpc = "building"
    /\ ~Finished
    /\ history /= <<>> => Compare(comparator, Last(history).key, key) < 0
    /\ Add(key, value)

\* builder.finish(), once
FinishBlock ==
    /\ rpc = "building"
    /\ ~Finished
    /\ Finish

\* Block::new(builder.finish().to_vec(), global_seqno)
OpenBlock(global_seqno) ==
    /\ rpc = "building"
    /\ Finished
    /\ block' = Block_new(builder.buff, global_seqno)
    /\ rpc' = "open"
    /\ UNCHANGED <<bvars, comparator, iter, scan, seek_key, vvars, cvars, fvars>>

Yield(it) == <<Iter_key(block, it), it.value>>

\* iter.seek_to_first()
SeekToFirst ==
    /\ rpc /= "building"
    /\ iter' = Iter_seek_to_first(block)
    /\ scan' = IF iter'.valid THEN <<Yield(iter')>> ELSE <<>>
    /\ rpc' = "first"
    /\ seek_key' = <<>>
    /\ UNCHANGED <<bvars, comparator, block, vvars, cvars, fvars>>

\* iter.next()
IterNext ==
    /\ rpc \in {"first", "seek", "moved"}
    /\ iter.valid
    /\ iter' = Iter_next(block, iter)
    /\ scan' = IF rpc = "first" /\ iter'.valid THEN Append(scan, Yield(iter')) ELSE scan
    /\ rpc' = IF rpc = "first" THEN "first" ELSE "moved"
    /\ seek_key' = <<>>
    /\ UNCHANGED <<bvars, comparator, block, vvars, cvars, fvars>>

\* iter.seek(key), on a new iterator, during a scan or after another seek
Seek(key) ==
    /\ rpc /= "building"
    /\ iter' = Iter_seek(block, comparator, key)
    /\ seek_key' = key
    /\ scan' = <<>>
    /\ rpc' = "seek"
    /\ UNCHANGED <<bvars, comparator, block, vvars, cvars, fvars>>

BlockNext ==
    \/ \E e \in BlockEntries(comparator) : AddAscending(e[1], e[2])
    \/ FinishBlock
    \/ \E g \in GlobalSeqnoSamples(comparator) : OpenBlock(g)
    \/ SeekToFirst
    \/ IterNext
    \/ \E key \in SeekTargets(comparator) : Seek(key)

SpecBlock == BlockInit /\ [][BlockNext]_vars

-----------------------------------------------------------------------------
(* The varint harness: encode a u32 and decode it, or decode a raw buffer   *)

\* longest raw buffer handed to get_var_uint32
MaxBufLen == 5
\* largest offset the caller holds before a decode
MaxStartOffset == 1

LimbSamples == {0, 1, 31, 32, 127, 128, 4095, 4096, 16383, 16384, 32767, 32768, 65535}
U32Samples == {<<lo, hi>> : lo \in LimbSamples, hi \in LimbSamples}
ByteSamples == {0, 1, 127, 128, 255}
TailSamples == {<<>>, <<0>>, <<255>>, <<128, 1>>}

\* longest run of continuation bytes in a buffer handed to get_var_uint64
MaxRun == 10
Limb64Samples == {0, 1, 128, 16384, 65535}
U64Samples == {<<a, b, c, d>> : a \in Limb64Samples, b \in Limb64Samples,
                                c \in Limb64Samples, d \in Limb64Samples}

RECURSIVE SeqsUpTo(_, _)
SeqsUpTo(S, n) ==
    IF n = 0 THEN {<<>>}
    ELSE LET shorter == SeqsUpTo(S, n - 1)
         IN  shorter \cup {Append(s, b) : s \in {t \in shorter : Len(t) = n - 1}, b \in S}

VInit ==
    /\ builder = BlockBuilder_new(1, FALSE, "DataBlockBinarySearch")
    /\ history = <<>>
    /\ cleared = "never"
    /\ comparator = "DefaultUserComparator"
    /\ RIdle
    /\ VIdle
    /\ CIdle
    /\ FIdle

\* the caller picks the number to encode
ChooseNumber(n) ==
    /\ vpc = "idle"
    /\ vn' = n
    /\ vpc' = "input"
    /\ UNCHANGED <<vbuf, voff, vlen, vres, bvars, rvars, cvars, fvars>>

\* encode_var_uint32(&mut tmp, n); the caller's buffer may hold more bytes
\* after the varint
EncodeVarint(tail) ==
    /\ vpc = "input"
    /\ vbuf' = encode_var_uint32(vn) \o tail
    /\ vlen' = Len(encode_var_uint32(vn))
    /\ vpc' = "encoded"
    /\ UNCHANGED <<vn, voff, vres, bvars, rvars, cvars, fvars>>

\* the caller holds bytes that no encoder of this module wrote
RawBuffer(buf) ==
    /\ vpc = "idle"
    /\ vbuf' = buf
    /\ vpc' = "raw"
    /\ UNCHANGED <<vn, voff, vlen, vres, bvars, rvars, cvars, fvars>>

\* get_var_uint32(&data, &mut offset), the caller's offset being off before
DecodeVarint(off) ==
    /\ vpc \in {"encoded", "raw"}
    /\ voff' = off
    /\ vres' = get_var_uint32(vbuf, off)
    /\ vpc' = IF vpc = "encoded" THEN "decoded" ELSE "rawdecoded"
    /\ UNCHANGED <<vn, vbuf, vlen, bvars, rvars, cvars, fvars>>

\* the caller picks the u64 to encode
ChooseNumber64(n) ==
    /\ vpc = "idle"
    /\ vn' = n
    /\ vpc' = "input64"
    /\ UNCHANGED <<vbuf, voff, vlen, vres, bvars, rvars, cvars, fvars>>

\* encode_var_uint64(&mut tmp, n); the caller's buffer may hold more bytes
\* after the varint
EncodeVarint64(tail) ==
    /\ vpc = "input64"
    /\ vbuf' = encode_var_uint64(vn) \o tail
    /\ vlen' = Len(encode_var_uint64(vn))
    /\ vpc' = "encoded64"
    /\ UNCHANGED <<vn, voff, vres, bvars, rvars, cvars, fvars>>

\* the caller holds a run of continuation bytes, followed or not by others
RunBuffer(run, tail) ==
    /\ vpc = "idle"
    /\ vbuf' = [i \in 1..run |-> 255] \o tail
    /\ vpc' = "raw"
    /\ UNCHANGED <<vn, voff, vlen, vres, bvars, rvars, cvars, fvars>>

\* get_var_uint64(&data, &mut next_offset), the caller's offset being off before
DecodeVarint64(off) ==
    /\ vpc \in {"encoded64", "raw"}
    /\ voff' = off
    /\ vres' = get_var_uint64(vbuf, off)
    /\ vpc' = IF vpc = "encoded64" THEN "decoded64" ELSE "rawdecoded64"
    /\ UNCHANGED <<vn, vbuf, vlen, bvars, rvars, cvars, fvars>>

VNext ==
    \/ \E n \in U32Samples : ChooseNumber(n)
    \/ \E tail \in TailSamples : EncodeVarint(tail)
    \/ vpc = "idle" /\ \E buf \in SeqsUpTo(ByteSamples, MaxBufLen) : RawBuffer(buf)
    \/ \E off \in 0..MaxStartOffset : DecodeVarint(off)
    \/ \E n \in U64Samples : ChooseNumber64(n)
    \/ \E tail \in TailSamples : EncodeVarint64(tail)
    \/ \E run \in (MaxBufLen + 1)..MaxRun, tail \in TailSamples : RunBuffer(run, tail)
    \/ \E off \in 0..MaxStartOffset : DecodeVarint64(off)

SpecVarint == VInit /\ [][VNext]_vars

-----------------------------------------------------------------------------
(* The checksum harness: mask a checksum, then unmask what came out         *)

CrcInit ==
    /\ builder = BlockBuilder_new(1, FALSE, "DataBlockBinarySearch")
    /\ history = <<>>
    /\ cleared = "never"
    /\ comparator = "DefaultUserComparator"
    /\ RIdle
    /\ VIdle
    /\ CIdle
    /\ FIdle

\* the caller computes a checksum
Checksum(c) ==
    /\ crc.pc = "idle"
    /\ crc' = [crc EXCEPT !.pc = "input", !.crc = c]
    /\ UNCHANGED <<bvars, rvars, vvars, fvars>>

\* crc_mask(crc)
MaskChecksum ==
    /\ crc.pc = "input"
    /\ crc' = [crc EXCEPT !.pc = "masked", !.masked = crc_mask(crc.crc)]
    /\ UNCHANGED <<bvars, rvars, vvars, fvars>>

\* crc_unmask(masked_crc)
UnmaskChecksum ==
    /\ crc.pc = "masked"
    /\ crc' = [crc EXCEPT !.pc = "unmasked", !.unmasked = crc_unmask(crc.masked)]
    /\ UNCHANGED <<bvars, rvars, vvars, fvars>>

CrcNext ==
    \/ \E c \in U32Samples : Checksum(c)
    \/ MaskChecksum
    \/ UnmaskChecksum

SpecCrc == CrcInit /\ [][CrcNext]_vars

-----------------------------------------------------------------------------
(* The column family under any sequence of install_version,                 *)
(* switch_memtable and set_log_number calls                                 *)

\* largest log number of a version, a memtable or a call
MaxLogNumber == 2
\* most super versions installed after the one of new()
MaxSuperVersions == 3

LogNumbers == 0..MaxLogNumber
\* two memtables of each next log number, told apart by id
MemtableIds == {0, 1}
Memtables == [id : MemtableIds, next_log_number : LogNumbers]
Versions == [id : {0, 1}, log_number : LogNumbers]

CfInit ==
    /\ builder = BlockBuilder_new(1, FALSE, "DataBlockBinarySearch")
    /\ history = <<>>
    /\ cleared = "never"
    /\ comparator = "DefaultUserComparator"
    /\ RIdle
    /\ VIdle
    /\ CIdle
    /\ cf \in {ColumnFamily_new(0, m, v) :
                   m \in {x \in Memtables : x.id = 0}, v \in {x \in Versions : x.id = 0}}
    /\ cfop = NoCall

\* cf.install_version(next_log_number, new_version)
InstallVersion(next_log_number, new_version) ==
    /\ cf.super_version_number < MaxSuperVersions
    /\ cf' = ColumnFamily_install_version(cf, next_log_number, new_version)
    /\ cfop' = [NoCall EXCEPT !.op = "install_version",
                              !.next_log_number = next_log_number,
                              !.version = new_version]
    /\ UNCHANGED <<bvars, rvars, vvars, cvars>>

\* cf.switch_memtable(mem), mem being any memtable, held already or not
SwitchMemtable(mem) ==
    /\ cf.super_version_number < MaxSuperVersions
    /\ cf' = ColumnFamily_switch_memtable(cf, mem)
    /\ cfop' = [NoCall EXCEPT !.op = "switch_memtable", !.mem = mem]
    /\ UNCHANGED <<bvars, rvars, vvars, cvars>>

\* cf.set_log_number(log_number)
SetLogNumber(log_number) ==
    /\ cf' = ColumnFamily_set_log_number(cf, log_number)
    /\ cfop' = [NoCall EXCEPT !.op = "set_log_number", !.log_number = log_number]
    /\ UNCHANGED <<bvars, rvars, vvars, cvars>>

CfNext ==
    \/ \E n \in LogNumbers, v \in Versions : InstallVersion(n, v)
    \/ \E m \in Memtables : SwitchMemtable(m)
    \/ \E n \in LogNumbers : SetLogNumber(n)

SpecCf == CfInit /\ [][CfNext]_vars

-----------------------------------------------------------------------------
(* Claims about a block built and then read (SpecBlock)                    *)

\* the entries added, in order
Added == SelectSeq(history, LAMBDA o : o.op = "add")

AddedPairs == [i \in 1..Len(Added) |-> <<Added[i].key, Added[i].value>>]

\* C1: for every sequence of (key, value) pairs added in strictly ascending
\* key order to a builder with restart interval >= 1, delta encoding on or off,
\* decoding the bytes of finish() with seek_to_first() and repeated next()
\* yields exactly the original keys and values, in order, and the iterator is
\* invalid after the last pair.
C1_RoundTrip ==
    (rpc = "first" /\ block.global_seqno = DISABLE_GLOBAL_SEQUENCE_NUMBER) =>
        /\ ~iter.corrupt
        /\ Len(scan) <= Len(AddedPairs)
        /\ scan = SubSeq(AddedPairs, 1, Len(scan))
        /\ iter.valid => (scan /= <<>> /\ scan[Len(scan)] = <<iter.key, iter.value>>)
        /\ ~iter.valid => scan = AddedPairs

\* three pairs, the third in a second restart run and the second sharing a
\* prefix with the first, were read back to the end
C1_Witness ==
    /\ rpc = "first"
    /\ block.global_seqno = DISABLE_GLOBAL_SEQUENCE_NUMBER
    /\ ~iter.valid
    /\ Len(scan) = 3
    /\ builder.use_delta_encoding
    /\ builder.block_restart_interval = 2
    /\ difference_offset(Added[1].key, Added[2].key) > 0
    /\ Len(Added[2].value) > 0

\* the keys of the entries added, as the reader hands them out
HandedOut == [i \in 1..Len(Added) |-> ApplyGlobalSeqno(block.global_seqno, Added[i].key)]

HandedOutAscending ==
    \A i \in 1..(Len(Added) - 1) : Compare(comparator, HandedOut[i], HandedOut[i + 1]) < 0

\* the entries whose key is not before k
NotBefore(k) == {i \in 1..Len(Added) : Compare(comparator, HandedOut[i], k) >= 0}

\* C2: on a block built from ascending keys, for every target key (present,
\* absent between two stored keys, smaller than the first key, larger than the
\* last key), seek(target) leaves the iterator on the smallest stored key that
\* is >= target, and leaves it invalid if and only if no stored key is >= target.
C2_SeekLandsOnLowerBound ==
    (rpc = "seek" /\ HandedOutAscending) =>
        /\ ~iter.corrupt
        /\ iter.valid <=> NotBefore(seek_key) /= {}
        /\ iter.valid =>
              LET m == CHOOSE i \in NotBefore(seek_key) :
                           \A j \in NotBefore(seek_key) : i <= j
              IN  /\ Iter_key(block, iter) = HandedOut[m]
                  /\ iter.value = Added[m].value
                  /\ iter.current = Added[m].offset

\* the case in which the seek misses the lower bound: the block carries a
\* hash index, no stored key has the user key of the target, and the bucket
\* of that user key names a restart point after the first stored key that
\* is >= target
C2_HashCandidatePastLowerBound ==
    /\ rpc = "seek"
    /\ HandedOutAscending
    /\ block.index_type = "DataBlockBinaryAndHash"
    /\ \A i \in 1..Len(Added) :
           extract_user_key(Added[i].key) /= extract_user_key(seek_key)
    /\ DataBlockHashIndex_lookup(block, extract_user_key(seek_key))
           \notin {NoEntry, Collision}
    /\ iter.valid
    /\ \E i \in NotBefore(seek_key) : Added[i].offset < iter.current

\* a seek for a key absent between the second and the third stored key
\* landed on the third, the restart point of the second run
C2_Witness ==
    /\ rpc = "seek"
    /\ HandedOutAscending
    /\ iter.valid
    /\ Len(Added) = 3
    /\ builder.block_restart_interval = 2
    /\ builder.use_delta_encoding
    /\ Compare(comparator, HandedOut[2], seek_key) < 0
    /\ Compare(comparator, seek_key, HandedOut[3]) < 0
    /\ iter.current = builder.restarts[2]

\* a seek for a key absent between the first and the second stored key landed
\* on the second, an entry that shares a prefix with the first
C2_WitnessInsideRun ==
    /\ rpc = "seek"
    /\ HandedOutAscending
    /\ iter.valid
    /\ Len(Added) >= 2
    /\ builder.block_restart_interval = 2
    /\ builder.use_delta_encoding
    /\ difference_offset(Added[1].key, Added[2].key) > 0
    /\ Compare(comparator, HandedOut[1], seek_key) < 0
    /\ Compare(comparator, seek_key, HandedOut[2]) < 0
    /\ iter.current = Added[2].offset

\* a seek for a key after every stored key left the iterator invalid
C2_WitnessPastEnd ==
    /\ rpc = "seek"
    /\ HandedOutAscending
    /\ Len(Added) >= 2
    /\ ~iter.valid

\* a seek for a key before every stored key landed on the first
C2_WitnessBeforeFirst ==
    /\ rpc = "seek"
    /\ Len(Added) >= 2
    /\ iter.valid
    /\ iter.current = 0
    /\ Compare(comparator, seek_key, HandedOut[1]) < 0

\* a seek for the second stored key landed on it
C2_WitnessPresent ==
    /\ rpc = "seek"
    /\ Len(Added) >= 3
    /\ iter.valid
    /\ iter.current > 0
    /\ seek_key = HandedOut[2]

\* the sequence number of an internal key
SequenceOf(key) == ShiftRight(decode_fixed_uint64(Trailer(key)), 8)
\* the value type of an internal key
TypeOf(key) == Trailer(key)[1]

\* the entry the iterator stands on
EntryAt(offset) == CHOOSE i \in 1..Len(Added) : Added[i].offset = offset

\* C3: when a block reader is constructed with an override other than the
\* disabled sentinel, every key iteration returns carries the override as its
\* sequence number, value type and user key unchanged, whatever sequence number
\* the builder wrote; with the disabled sentinel every key is returned with the
\* sequence number written.
C3_GlobalSeqnoOverlay ==
    (rpc /= "building" /\ iter.valid) =>
        /\ \E i \in 1..Len(Added) : Added[i].offset = iter.current
        /\ LET written == Added[EntryAt(iter.current)].key
               returned == Iter_key(block, iter)
           IN  IF block.global_seqno = DISABLE_GLOBAL_SEQUENCE_NUMBER
               THEN returned = written
               ELSE /\ Len(returned) = Len(written)
                    /\ extract_user_key(returned) = extract_user_key(written)
                    /\ TypeOf(returned) = TypeOf(written)
                    /\ SequenceOf(returned) = ShiftRight(ShiftLeft(block.global_seqno, 8), 8)

\* with the override 12, iteration stands on a deletion written with sequence
\* number 2 whose entry shares its user key with the entry before it
C3_Witness ==
    /\ rpc = "first"
    /\ iter.valid
    /\ block.global_seqno = U64OfNat(12)
    /\ Len(scan) = 2
    /\ builder.use_delta_encoding
    /\ builder.block_restart_interval = 2
    /\ Added[2].key = InternalKeyOfType(<<97, 98>>, 2, TypeDeletion)
    /\ SequenceOf(Iter_key(block, iter)) = U64OfNat(12)
    /\ TypeOf(Iter_key(block, iter)) = TypeDeletion

\* with the override disabled, iteration stands on a key written with
\* sequence number 1
C3_WitnessDisabled ==
    /\ rpc = "first"
    /\ iter.valid
    /\ comparator = "InternalKeyComparator"
    /\ block.global_seqno = DISABLE_GLOBAL_SEQUENCE_NUMBER
    /\ SequenceOf(Iter_key(block, iter)) = U64OfNat(1)

-----------------------------------------------------------------------------
(* Claims about the builder under any sequence of calls (Spec)              *)

ConfiguredIndexType(b) ==
    IF b.hash_index_builder.valid THEN "DataBlockBinaryAndHash" ELSE "DataBlockBinarySearch"

\* the builder new() returns for the configuration of b
Fresh(b) ==
    BlockBuilder_new(b.block_restart_interval, b.use_delta_encoding, ConfiguredIndexType(b))

\* the builder after the calls of h, made in order on b
RECURSIVE Replay(_, _)
Replay(b, h) ==
    IF h = <<>> THEN b
    ELSE Replay(IF Head(h).op = "add"
                THEN BlockBuilder_add(b, Head(h).key, Head(h).value)
                ELSE BlockBuilder_finish(b),
                Tail(h))

\* the footer of a finished buffer
FooterOf(buff) == decode_fixed_uint32(SubSeq(buff, Len(buff) - 3, Len(buff)))

\* C4: after any sequence of add() and finish() calls, clear() returns the
\* builder to the state of a freshly constructed builder of the same
\* configuration (empty buffer, restarts = [0], count 0, empty last key, initial
\* size estimate), so that replaying any add() sequence and calling finish()
\* gives the bytes a fresh builder gives.
C4_ClearIsFresh ==
    cleared /= "never" =>
        /\ history = <<>> =>
              /\ builder = Fresh(builder)
              /\ builder.buff = <<>>
              /\ builder.restarts = <<0>>
              /\ builder.count = 0
              /\ builder.last_key = <<>>
              /\ builder.estimate = 8
        /\ builder = Replay(Fresh(builder), history)

\* a builder that had been used was cleared, then given two entries of which
\* the second shares a prefix with the first, and finished
C4_Witness ==
    /\ cleared = "used"
    /\ Len(history) = 3
    /\ history[1].op = "add" /\ history[2].op = "add" /\ history[3].op = "finish"
    /\ builder.use_delta_encoding
    /\ builder.block_restart_interval = 2
    /\ difference_offset(history[1].key, history[2].key) > 0

\* C5: in every block produced by any sequence of add() calls, the entry
\* that starts at each recorded restart offset is encoded with shared_len = 0
\* and carries its full key, with delta encoding enabled or disabled.
C5_RestartEntriesHoldFullKeys ==
    /\ \A j \in 2..Len(builder.restarts) :
          \E i \in 1..Len(history) :
              history[i].op = "add" /\ history[i].offset = builder.restarts[j]
    /\ \A i \in 1..Len(history) :
          (/\ history[i].op = "add"
           /\ \E j \in 1..Len(builder.restarts) : builder.restarts[j] = history[i].offset)
          => LET e == ParseEntry(builder.buff, Len(builder.buff), history[i].offset, <<>>)
             IN  /\ e.ok
                 /\ e.shared = 0
                 /\ e.non_shared = Len(history[i].key)
                 /\ e.delta = history[i].key

\* with delta encoding on, the second restart entry follows an entry that it
\* shares a prefix with
C5_Witness ==
    /\ builder.use_delta_encoding
    /\ Len(builder.restarts) = 2
    /\ Len(history) >= 3
    /\ history[3].op = "add" /\ history[3].offset = builder.restarts[2]
    /\ history[2].op = "add"
    /\ difference_offset(history[2].key, history[3].key) > 0

\* C6: in every reachable builder state (after new, and after any sequence
\* of add, finish and clear) the restart array is non-empty and its first
\* element is 0; hence the restart count in the footer of any finalized block
\* is at least 1.
C6_FirstRestartIsZero ==
    /\ Len(builder.restarts) >= 1
    /\ builder.restarts[1] = 0
    /\ (history /= <<>> /\ history[Len(history)].op = "finish") =>
          /\ unpack_num_restarts(FooterOf(builder.buff)) = Len(builder.restarts)
          /\ unpack_num_restarts(FooterOf(builder.buff)) >= 1

\* a cleared builder was given entries that opened a second restart run and
\* was finished
C6_Witness ==
    /\ cleared = "used"
    /\ history /= <<>> /\ history[Len(history)].op = "finish"
    /\ Len(builder.restarts) >= 2
    /\ unpack_num_restarts(FooterOf(builder.buff)) = Len(builder.restarts)

\* a step that is an add() or a finish(), not a clear()
AddOrFinishStep == Len(history') = Len(history) + 1

\* C7: current_size_estimate() never decreases between clear() calls: over
\* any sequence of add() and finish() calls with no clear() among them, each
\* value observed is at least every value observed before it.
C7_EstimateMonotone ==
    [][AddOrFinishStep => current_size_estimate(builder') >= current_size_estimate(builder)]_vars

\* an add() after a finish() after an add(), with the hash index active, has
\* raised the estimate above its initial value
C7_Witness ==
    /\ Len(history) >= 3
    /\ history[1].op = "add" /\ history[2].op = "finish" /\ history[3].op = "add"
    /\ builder.hash_index_builder.valid
    /\ current_size_estimate(builder) > current_size_estimate(Fresh(builder))

FinishStep == AddOrFinishStep /\ history'[Len(history')].op = "finish"

\* C8: finish() writes index type DataBlockBinaryAndHash in the footer and
\* appends the hash-index bytes if and only if the hash index builder is valid
\* and current_size_estimate() is below MAX_BLOCK_SIZE_SUPPORTED_BY_HASH_INDEX;
\* in every other case it writes DataBlockBinarySearch and appends no
\* hash-index bytes; it signals no error in either case.
C8_HashIndexDowngradeInFooter ==
    [][FinishStep =>
        LET retained == /\ builder.hash_index_builder.valid
                        /\ current_size_estimate(builder)
                               < MAX_BLOCK_SIZE_SUPPORTED_BY_HASH_INDEX
            hash_bytes == IF retained THEN HashIndex_finish(builder.hash_index_builder)
                          ELSE <<>>
            before == Len(builder.buff) + SizeOfU32 * Len(builder.restarts)
            after == Len(builder'.buff)
        IN  /\ unpack_index_type(FooterOf(builder'.buff))
                 = IF retained THEN "DataBlockBinaryAndHash" ELSE "DataBlockBinarySearch"
            /\ after = before + Len(hash_bytes) + SizeOfU32
            /\ SubSeq(builder'.buff, before + 1, after - SizeOfU32) = hash_bytes
    ]_vars

\* a builder with an active hash index grew past the ceiling and its
\* finish() wrote the binary-search index type
C8_Witness ==
    /\ history /= <<>> /\ history[Len(history)].op = "finish"
    /\ \A i \in 1..(Len(history) - 1) : history[i].op = "add"
    /\ builder.hash_index_builder.valid
    /\ current_size_estimate(builder) >= MAX_BLOCK_SIZE_SUPPORTED_BY_HASH_INDEX
    /\ unpack_index_type(FooterOf(builder.buff)) = "DataBlockBinarySearch"

\* a builder with an active hash index stayed below the ceiling and its
\* finish() kept the hash index
C8_WitnessRetained ==
    /\ history /= <<>> /\ history[Len(history)].op = "finish"
    /\ builder.hash_index_builder.valid
    /\ Len(builder.hash_index_builder.pairs) >= 1
    /\ unpack_index_type(FooterOf(builder.buff)) = "DataBlockBinaryAndHash"

\* only add() was called since new() or the last clear()
OnlyAdds == \A i \in 1..Len(history) : history[i].op = "add"

\* C12: for a builder without an active hash index, after any sequence of
\* add() calls following new() or clear() and before finish(),
\* current_size_estimate() equals the byte length of the buffer that finish()
\* then returns: entry bytes + 4 bytes per restart offset + 4 footer bytes.
C12_EstimateExact ==
    (OnlyAdds /\ ~builder.hash_index_builder.valid) =>
        /\ current_size_estimate(builder) = Len(BlockBuilder_finish(builder).buff)
        /\ current_size_estimate(builder)
               = Len(builder.buff) + 4 * Len(builder.restarts) + 4

\* a cleared builder without a hash index took three entries, the last of
\* which started a second restart run
C12_Witness ==
    /\ OnlyAdds
    /\ cleared = "used"
    /\ ~builder.hash_index_builder.valid
    /\ Len(history) = 3
    /\ Len(builder.restarts) = 2
    /\ Len(history[3].value) > 0

\* C13: on a fresh or cleared builder with block_restart_interval N >= 1,
\* after n >= 1 add() calls the restart array holds exactly ceil(n/N) offsets,
\* strictly increasing, the i-th of which (0-based) is the byte offset at which
\* entry number i*N begins; the intra-run counter never exceeds N.
C13_RestartCadence ==
    (OnlyAdds /\ Len(history) >= 1 /\ builder.block_restart_interval >= 1) =>
        LET N == builder.block_restart_interval
            n == Len(history)
        IN  /\ Len(builder.restarts) = (n + N - 1) \div N
            /\ \A i \in 1..(Len(builder.restarts) - 1) :
                  builder.restarts[i] < builder.restarts[i + 1]
            /\ \A i \in 0..(Len(builder.restarts) - 1) :
                  /\ i * N + 1 <= n
                  /\ builder.restarts[i + 1] = history[i * N + 1].offset
            /\ builder.count <= N
            /\ builder.count >= 1

\* with interval 2 a cleared builder took four entries: two full runs
C13_Witness ==
    /\ OnlyAdds
    /\ cleared = "used"
    /\ builder.block_restart_interval = 2
    /\ Len(history) = 4
    /\ builder.count = 2
    /\ Len(builder.restarts) = 2

\* the length of the longest common byte prefix of two keys
LongestCommonPrefix(x, y) ==
    CHOOSE n \in 0..Min(Len(x), Len(y)) :
        /\ SubSeq(x, 1, n) = SubSeq(y, 1, n)
        /\ n < Min(Len(x), Len(y)) => x[n + 1] /= y[n + 1]

\* whether the i-th add() since new() or clear() started a new restart run
StartsRestartRun(i) == i > 1 /\ (i - 1) % builder.block_restart_interval = 0

\* C14: for every add() that does not start a new restart run, the encoded
\* shared_len equals the length of the longest common byte prefix of the key
\* and the key passed to the immediately preceding add() (0 for the first
\* entry) when delta encoding is enabled, and 0 when it is disabled; the bytes
\* stored are key[shared_len..].
C14_SharedPrefixLength ==
    \A i \in 1..Len(Added) :
        ~StartsRestartRun(i) =>
            LET previous == IF i = 1 THEN <<>> ELSE Added[i - 1].key
                e == ParseEntry(builder.buff, Len(builder.buff), Added[i].offset,
                                previous)
                key == Added[i].key
                expected == IF ~builder.use_delta_encoding THEN 0
                            ELSE IF i = 1 THEN 0
                            ELSE LongestCommonPrefix(Added[i - 1].key, key)
            IN  /\ e.ok
                /\ e.shared = expected
                /\ e.non_shared = Len(key) - expected
                /\ e.delta = SubSeq(key, expected + 1, Len(key))

\* with delta encoding on and interval 2, the fourth entry follows a restart
\* key that it shares a prefix with, and that the second key does not share
C14_Witness ==
    /\ OnlyAdds
    /\ builder.use_delta_encoding
    /\ builder.block_restart_interval = 2
    /\ Len(history) = 4
    /\ LongestCommonPrefix(history[3].key, history[4].key) > 0
    /\ LongestCommonPrefix(history[2].key, history[4].key)
          /= LongestCommonPrefix(history[3].key, history[4].key)

\* the first finish() after new() or clear() has just returned
FirstFinish ==
    /\ history /= <<>>
    /\ history[Len(history)].op = "finish"
    /\ \A i \in 1..(Len(history) - 1) : history[i].op = "add"

\* C15: the buffer returned by the first finish() after new() or clear() is,
\* in order, the entry bytes, then every restart offset in recording order as a
\* 4-byte little-endian integer, then the hash-index bytes when the hash index
\* is retained, then a 4-byte little-endian footer whose restart count equals
\* the number of restart offsets written.
C15_FinalizedLayout ==
    FirstFinish =>
        LET pre == Replay(Fresh(builder), SubSeq(history, 1, Len(history) - 1))
            entries == Len(pre.buff)
            R == Len(builder.restarts)
            hash_bytes == IF HashIndexRetained(pre)
                          THEN HashIndex_finish(pre.hash_index_builder)
                          ELSE <<>>
            buff == builder.buff
        IN  /\ entries = history[Len(history)].offset
            /\ Len(buff) = entries + 4 * R + Len(hash_bytes) + 4
            /\ SubSeq(buff, 1, entries) = pre.buff
            /\ \A j \in 1..R :
                  LET at == entries + 4 * (j - 1)
                  IN  buff[at + 1] + 256 * buff[at + 2]
                        + 65536 * (buff[at + 3] + 256 * buff[at + 4])
                      = builder.restarts[j]
            /\ SubSeq(buff, entries + 4 * R + 1, Len(buff) - 4) = hash_bytes
            /\ unpack_num_restarts(FooterOf(buff)) = R
            /\ unpack_index_type(FooterOf(buff))
                  = IF HashIndexRetained(pre) THEN "DataBlockBinaryAndHash"
                    ELSE "DataBlockBinarySearch"

\* a block of two restart runs was finished with its hash index retained
C15_Witness ==
    /\ FirstFinish
    /\ Len(builder.restarts) >= 2
    /\ builder.restarts[2] > 0
    /\ unpack_index_type(FooterOf(builder.buff)) = "DataBlockBinaryAndHash"
    /\ Len(builder.buff) > history[Len(history)].offset + 4 * Len(builder.restarts) + 4

-----------------------------------------------------------------------------
(* Claims about the varint codec                                            *)

\* no byte with the high bit clear among the first five bytes of buf
NoTerminator(buf) == \A i \in 1..Min(5, Len(buf)) : buf[i] >= B

\* C9: for every buffer with no terminating byte (high bit clear) among its
\* first five bytes, the empty buffer and the buffers of 1 to 4 continuation
\* bytes included, get_var_uint32 returns None to its caller and does not fault.
C9_TruncatedVarintIsNone ==
    (vpc = "rawdecoded" /\ NoTerminator(vbuf)) => vres.tag = "None"

\* C10: for every u32 n, encode_var_uint32 writes 1 to 5 bytes, as many as
\* varint_length(n), every byte but the last with the high bit set, and
\* get_var_uint32 on those bytes returns Some(n) and advances the caller's
\* offset by exactly the number of bytes written.
C10_Varint32RoundTrip ==
    /\ vpc \in {"encoded", "decoded"} =>
            /\ vlen \in 1..5
            /\ vlen = varint_length(U64OfU32(vn))
            /\ \A i \in 1..(vlen - 1) : vbuf[i] >= B
            /\ vbuf[vlen] < B
    /\ vpc = "decoded" => vres = VarSome(vn, voff + vlen)

\* a five-byte varint of a value of 2^31 or more, followed by other bytes,
\* has been decoded at a non-zero offset
C10_Witness ==
    /\ vpc = "decoded"
    /\ vn = <<65535, 65535>>
    /\ vlen = 5
    /\ Len(vbuf) > vlen
    /\ voff > 0
    /\ vres.tag = "Some"

\* the number of bytes of the varint at the head of buf: up to and including
\* the first byte without the continuation bit
Consumed(buf) == CHOOSE i \in 1..Len(buf) : buf[i] < B /\ \A j \in 1..(i - 1) : buf[j] >= B

\* C16: whenever get_var_uint32 or get_var_uint64 returns None, the offset
\* argument has the value it had before the call; whenever either returns
\* Some, the offset has advanced by exactly the number of bytes consumed.
C16_FailedDecodeKeepsOffset ==
    vpc \in {"decoded", "rawdecoded", "decoded64", "rawdecoded64"} =>
        /\ vres.tag = "None" => vres.offset = voff
        /\ vres.tag = "Some" => vres.offset = voff + Consumed(vbuf)

\* C17: for every u64 v, encode_var_uint64 writes between 1 and 10 bytes with
\* the high bit set on every byte except the last, and get_var_uint64 applied
\* to those bytes returns Some(v) and advances the offset by exactly the number
\* of bytes written.
C17_Varint64RoundTrip ==
    /\ vpc \in {"encoded64", "decoded64"} =>
            /\ vlen \in 1..10
            /\ Len(vbuf) >= vlen
            /\ \A i \in 1..(vlen - 1) : vbuf[i] >= B /\ vbuf[i] <= 255
            /\ vbuf[vlen] < B
    /\ vpc = "decoded64" => vres = VarSome(vn, voff + vlen)

\* the largest u64 was written in ten bytes in front of other bytes and read
\* back by a caller whose offset was not 0
C17_Witness ==
    /\ vpc = "decoded64"
    /\ vn = <<65535, 65535, 65535, 65535>>
    /\ vlen = 10
    /\ Len(vbuf) > vlen
    /\ voff > 0
    /\ vres.tag = "Some"

-----------------------------------------------------------------------------
(* Claims about the checksum mask (SpecCrc)                                 *)

\* bit i (0 the least significant) of a u32
BitAt(x, i) == (x[(i \div LimbBits) + 1] \div Pow2(i % LimbBits)) % 2

\* the bits of rotate_right(x, r)
RotateRightBits(x, r) == [i \in 0..31 |-> BitAt(x, (i + r) % 32)]

\* the carry into bit i of the sum of two 32-bit numbers given by their bits
RECURSIVE CarryInto(_, _, _)
CarryInto(a, b, i) ==
    IF i = 0 THEN 0 ELSE (a[i - 1] + b[i - 1] + CarryInto(a, b, i - 1)) \div 2

\* the sum modulo 2^32, bit by bit
SumBits(a, b) == [i \in 0..31 |-> (a[i] + b[i] + CarryInto(a, b, i)) % 2]

RECURSIVE LimbOfBits(_, _, _)
LimbOfBits(f, from, n) ==
    IF n = 0 THEN 0 ELSE f[from] + 2 * LimbOfBits(f, from + 1, n - 1)

FromBits(f) == <<LimbOfBits(f, 0, LimbBits), LimbOfBits(f, LimbBits, LimbBits)>>

\* 0xA282EAD8, digit by digit
ClaimedDelta ==
    <<((14 * 16 + 10) * 16 + 13) * 16 + 8, ((10 * 16 + 2) * 16 + 8) * 16 + 2>>

\* C11: for every 32-bit value crc, crc_mask(crc) equals rotate_right(crc, 15)
\* plus 0xA282EAD8 modulo 2^32, and crc_unmask(crc_mask(crc)) = crc.
C11_CrcMaskReversible ==
    /\ crc.pc \in {"masked", "unmasked"} =>
          crc.masked = FromBits(SumBits(RotateRightBits(crc.crc, 15),
                                        [i \in 0..31 |-> BitAt(ClaimedDelta, i)]))
    /\ crc.pc = "unmasked" => crc.unmasked = crc.crc

\* a checksum whose rotation carries bits across both halves and whose sum
\* with the delta wraps around 2^32 was masked and unmasked
C11_Witness ==
    /\ crc.pc = "unmasked"
    /\ crc.crc[1] \notin {0, 65535} /\ crc.crc[2] \notin {0, 65535}
    /\ \/ crc.masked[2] < ClaimedDelta[2]
       \/ crc.masked[2] = ClaimedDelta[2] /\ crc.masked[1] < ClaimedDelta[1]
    /\ crc.unmasked = crc.crc

-----------------------------------------------------------------------------
(* Claims about the column family (SpecCf)                                  *)

\* the step is a call that installs a super version
SuperVersionStep == cfop'.op \in {"install_version", "switch_memtable"}

\* C18: super_version_number is incremented by exactly 1 on every change of
\* the column family's super version (each install_version and each
\* switch_memtable) and by nothing else, and the version_number of the
\* installed SuperVersion always equals the current value of
\* super_version_number; successive super versions carry strictly increasing
\* numbers starting from 0.
C18_SuperVersionNumbering ==
    /\ cf.super_version_number = 0
    /\ [](cf.super_version.version_number = cf.super_version_number)
    /\ [][IF SuperVersionStep
          THEN /\ cf'.super_version_number = cf.super_version_number + 1
               /\ cf'.super_version.version_number
                     = cf.super_version.version_number + 1
          ELSE /\ cf'.super_version_number = cf.super_version_number
               /\ cf'.super_version = cf.super_version
         ]_vars

\* the third super version after the one of new() was installed by
\* install_version, after a switch_memtable whose memtable it kept
C18_Witness ==
    /\ cfop.op = "install_version"
    /\ cf.super_version_number = 3
    /\ cf.super_version.version_number = 3
    /\ Len(cf.imms) >= 1

\* C19: after construction and after any sequence of install_version,
\* switch_memtable and set_log_number calls, the installed SuperVersion's
\* active memtable, immutable-memtable list and current version are equal to
\* the column family's own mem, imms and version; switch_memtable appends the
\* previously active memtable as the last element of imms and leaves version
\* and log_number unchanged.
C19_SuperVersionConsistent ==
    /\ [](/\ cf.super_version.mem = cf.mem
           /\ cf.super_version.imms = cf.imms
           /\ cf.super_version.current = cf.version)
    /\ [][cfop'.op = "switch_memtable" =>
             /\ cf'.imms = Append(cf.imms, cf.mem)
             /\ cf'.mem = cfop'.mem
             /\ cf'.version = cf.version
             /\ cf'.log_number = cf.log_number
          ]_vars

\* a second memtable was switched out, after a version was installed and the
\* log number set apart from the version's
C19_Witness ==
    /\ cfop.op = "switch_memtable"
    /\ Len(cf.imms) = 2
    /\ cf.imms[2] /= cf.imms[1]
    /\ cf.version.id = 1
    /\ cf.log_number /= cf.version.log_number
    /\ cf.super_version.imms = cf.imms

\* C20: install_version(next_log_number, v) keeps, in their original order,
\* exactly those immutable memtables whose next log number is greater than
\* next_log_number and drops the rest; an immutable memtable whose data is not
\* yet covered by the installed log number is never dropped, for every value
\* of next_log_number including 0.
C20_ImmsRetirement ==
    [][cfop'.op = "install_version" =>
          cf'.imms = SelectSeq(cf.imms,
                        LAMBDA m : m.next_log_number > cfop'.next_log_number)
      ]_vars

=============================================================================
